---- MODULE Spec2Model ----
(***************************************************************************)
(* Model of the Ac state engine of homebridge-ac-esp8266 (src/src/ac.cpp,  *)
(* class declaration in src/unnamed/part_000, settings in                  *)
(* src/include/settings.h).                                                *)
(*                                                                         *)
(* Arduino Strings are sequences of ASCII codes, so that toLowerCase and   *)
(* the comparisons of setTargetMode / setTargetFanSpeed are computed.      *)
(* The EEPROM library is a RAM buffer (eeprom) over flash (flash):         *)
(* EEPROM.begin copies flash to the buffer, EEPROM.write changes the       *)
(* buffer, EEPROM.commit copies the buffer to flash.                       *)
(* Every handler starts with an empty log and appends one event for each   *)
(* setter call, backend call, store read, store write, sensor read, IR     *)
(* transmission, broadcast and store commit it makes, in program order.    *)
(* backend is what the selected encoder object was last told, command by   *)
(* command.  unsigned long values are pairs <<high, low>> of 16-bit        *)
(* halves; millis() is an input of Ac::loop.                               *)
(***************************************************************************)
EXTENDS Integers, Sequences, FiniteSets, TLC

VARIABLES mode, currentTemperature, currentHumidity, targetMode,
          targetFanSpeed, targetTemperature, verticalSwing, horizontalSwing,
          quietMode, powerfulMode, dirty, eeprom, flash, unflushed, held, op, log,
          loopLastRun, backend, given

vars == <<mode, currentTemperature, currentHumidity, targetMode,
          targetFanSpeed, targetTemperature, verticalSwing, horizontalSwing,
          quietMode, powerfulMode, dirty, eeprom, flash, unflushed, held, op, log,
          loopLastRun, backend, given>>

(***************************************************************************)
(* Program constants.                                                      *)
(***************************************************************************)
DAIKIN == 1
PANASONIC == 2
HITACHI == 3

S_FAN == 210
S_VS == 230
S_HS == 231
S_QM == 232
S_PM == 233

DefaultTemperature == 23

\* The offsets of the store the engine uses (S_FAN is declared, never used).
Offsets == {S_VS, S_HS, S_QM, S_PM}

\* The backend variants AC_MODE can select.
Variants == {DAIKIN, PANASONIC, HITACHI}

(***************************************************************************)
(* Texts: Arduino String values as sequences of ASCII codes.               *)
(***************************************************************************)
T_off == <<111, 102, 102>>
T_cool == <<99, 111, 111, 108>>
T_heat == <<104, 101, 97, 116>>
T_fan == <<102, 97, 110>>
T_auto == <<97, 117, 116, 111>>
T_dry == <<100, 114, 121>>
T_min == <<109, 105, 110>>
T_max == <<109, 97, 120>>
\* "COOL", "Heat", "oFf", "DRY", "MAX", "Min", "bogus", "" and "offf"
T_COOL == <<67, 79, 79, 76>>
T_Heat == <<72, 101, 97, 116>>
T_oFf == <<111, 70, 102>>
T_DRY == <<68, 82, 89>>
T_MAX == <<77, 65, 88>>
T_Min == <<77, 105, 110>>
T_bogus == <<98, 111, 103, 117, 115>>
T_empty == <<>>
T_offf == <<111, 102, 102, 102>>

ModeEnum == {T_off, T_cool, T_heat, T_fan, T_auto, T_dry}
FanEnum == {T_auto, T_min, T_max}

\* String::toLowerCase: every 'A'..'Z' becomes 'a'..'z', the rest is kept.
toLowerCase(s) ==
    [i \in 1..Len(s) |-> IF s[i] >= 65 /\ s[i] <= 90 THEN s[i] + 32 ELSE s[i]]

\* s and t are the same text up to the case of the letters.
Lower(c) == IF c \in 65..90 THEN c + 32 ELSE c
SameTextNoCase(s, t) ==
    Len(s) = Len(t) /\ \A i \in 1..Len(s) : Lower(s[i]) = Lower(t[i])
NamesOneOf(text, enum) == \E t \in enum : SameTextNoCase(text, t)

\* The enum member a text names, whatever its case.
Named(text, enum) == CHOOSE t \in enum : SameTextNoCase(text, t)

(***************************************************************************)
(* unsigned long: 32 bits, as <<high, low>> with 16 bits each.             *)
(***************************************************************************)
W16 == 65536

U32(high, low) == <<high % W16, low % W16>>

\* a - b in unsigned long arithmetic (modulo 2^32).
Sub32(a, b) ==
    LET low == a[2] - b[2]
        borrow == IF low < 0 THEN 1 ELSE 0
    IN  U32(a[1] - b[1] - borrow, low)

\* a >= n for an unsigned long a and a number n below 2^16.
AtLeast(a, n) == a[1] > 0 \/ a[2] >= n

\* a < b for unsigned longs.
Before(a, b) == a[1] < b[1] \/ (a[1] = b[1] /\ a[2] < b[2])

\* What a member nothing has assigned holds is one 32-bit value that the
\* program never learns other than by comparing it.  Range(lo, hi) stands
\* for such a value: one of lo, lo + 1, ... hi (counting modulo 2^32), the
\* same one at every read.  A range is drawn so that all its values compare
\* alike with every clock reading (see Ranges).
Range(lo, hi) == <<lo[1], lo[2], hi[1], hi[2]>>

IsRange(v) == Len(v) = 4

First(v) == <<v[1], v[2]>>

Last(v) == IF IsRange(v) THEN <<v[3], v[4]>> ELSE <<v[1], v[2]>>

\* The interval of the periodic refresh (milliseconds).
Interval == 30000

(***************************************************************************)
(* The machine record: the Ac object, the store and the handler's log.     *)
(***************************************************************************)
St == [mode |-> mode,
       currentTemperature |-> currentTemperature,
       currentHumidity |-> currentHumidity,
       targetMode |-> targetMode,
       targetFanSpeed |-> targetFanSpeed,
       targetTemperature |-> targetTemperature,
       verticalSwing |-> verticalSwing,
       horizontalSwing |-> horizontalSwing,
       quietMode |-> quietMode,
       powerfulMode |-> powerfulMode,
       dirty |-> dirty,
       eeprom |-> eeprom,
       flash |-> flash,
       unflushed |-> unflushed,
       loopLastRun |-> loopLastRun,
       backend |-> backend,
       given |-> given,
       log |-> <<>>]

Becomes(m, o, h) ==
    /\ mode' = m.mode
    /\ currentTemperature' = m.currentTemperature
    /\ currentHumidity' = m.currentHumidity
    /\ targetMode' = m.targetMode
    /\ targetFanSpeed' = m.targetFanSpeed
    /\ targetTemperature' = m.targetTemperature
    /\ verticalSwing' = m.verticalSwing
    /\ horizontalSwing' = m.horizontalSwing
    /\ quietMode' = m.quietMode
    /\ powerfulMode' = m.powerfulMode
    /\ dirty' = m.dirty
    /\ eeprom' = m.eeprom
    /\ flash' = m.flash
    /\ unflushed' = m.unflushed
    /\ loopLastRun' = m.loopLastRun
    /\ backend' = m.backend
    /\ given' = m.given
    /\ log' = m.log
    /\ op' = o
    /\ held' = h

Emit(m, e) == [m EXCEPT !.log = Append(@, e)]

\* A setter was entered with this argument.
Called(m, setter, value) ==
    Emit(m, [kind |-> "call", name |-> setter, arg |-> value])

\* What an encoder object can be told: on() and off() tell it the power,
\* every other command tells it the value of that command.  The mode it is
\* told counts from the last on() or off().
Slots == {"power", "setMode", "setFan", "setTemp", "setSwingVertical",
          "setSwingHorizontal", "setQuiet", "setPowerful"}

\* An encoder object that was told nothing since it was constructed.
Untold == [s \in Slots |-> <<>>]

\* A call of the selected backend object (daikin / panasonic / hitachi).
Dispatch(m, object, command, value) ==
    [Emit(m, [kind |-> "dispatch", obj |-> object, cmd |-> command, arg |-> value])
        EXCEPT !.backend = IF command \in {"on", "off"}
                           THEN [@ EXCEPT !["power"] = <<command>>,
                                          !["setMode"] = <<>>]
                           ELSE [@ EXCEPT ![command] = <<value>>]]

(***************************************************************************)
(* Store: Ac::set, Ac::load, Ac::save.                                     *)
(***************************************************************************)
\* Mutant: set that writes the buffer and does not mark it dirty.
set_notDirty(m, location, value) ==
    [Emit(m, [kind |-> "write", loc |-> location, val |-> value])
        EXCEPT !.eeprom[location] = value % 256,
               !.unflushed = TRUE]

set(m, location, value) ==
    [Emit(m, [kind |-> "write", loc |-> location, val |-> value])
        EXCEPT !.eeprom[location] = value % 256,
               !.dirty = TRUE,
               !.unflushed = TRUE]

load(m, location) == m.eeprom[location]

save(m) ==
    IF m.dirty
    THEN [Emit(m, [kind |-> "commit", pending |-> m.unflushed])
            EXCEPT !.flash = m.eeprom, !.dirty = FALSE, !.unflushed = FALSE]
    ELSE m

(***************************************************************************)
(* Backend dispatch helpers: the if / else-if chains over mode.            *)
(***************************************************************************)
BackendOff(m) ==
    IF m.mode = DAIKIN THEN Dispatch(m, "daikin", "off", 0)
    ELSE IF m.mode = PANASONIC THEN Dispatch(m, "panasonic", "off", 0)
    ELSE IF m.mode = HITACHI THEN Dispatch(m, "hitachi", "off", 0)
    ELSE m

\* on() followed by setMode(<the variant's constant>)
BackendOnMode(m, dk, pn, hi) ==
    IF m.mode = DAIKIN
    THEN Dispatch(Dispatch(m, "daikin", "on", 0), "daikin", "setMode", dk)
    ELSE IF m.mode = PANASONIC
    THEN Dispatch(Dispatch(m, "panasonic", "on", 0), "panasonic", "setMode", pn)
    ELSE IF m.mode = HITACHI
    THEN Dispatch(Dispatch(m, "hitachi", "on", 0), "hitachi", "setMode", hi)
    ELSE m

BackendFan(m, dk, pn, hi) ==
    IF m.mode = DAIKIN THEN Dispatch(m, "daikin", "setFan", dk)
    ELSE IF m.mode = PANASONIC THEN Dispatch(m, "panasonic", "setFan", pn)
    ELSE IF m.mode = HITACHI THEN Dispatch(m, "hitachi", "setFan", hi)
    ELSE m

(***************************************************************************)
(* Setters.                                                                *)
(***************************************************************************)
\* Mutant: setTargetMode that stores an unrecognized text as it is.
setTargetMode_noCoercion(m0, text) ==
    LET value == toLowerCase(text)
        m == Called(m0, "setTargetMode", text)
        m1 == IF value = T_off THEN BackendOff(m)
              ELSE IF value = T_cool
              THEN BackendOnMode(m, "DAIKIN_COOL", "kPanasonicAcCool", "kHitachiAcCool")
              ELSE IF value = T_heat
              THEN BackendOnMode(m, "DAIKIN_HEAT", "kPanasonicAcHeat", "kHitachiAcHeat")
              ELSE IF value = T_fan
              THEN BackendOnMode(m, "DAIKIN_FAN", "kPanasonicAcFan", "kHitachiAcFan")
              ELSE IF value = T_auto
              THEN BackendOnMode(m, "DAIKIN_AUTO", "kPanasonicAcAuto", "kHitachiAcAuto")
              ELSE IF value = T_dry
              THEN BackendOnMode(m, "DAIKIN_DRY", "kPanasonicAcDry", "kHitachiAcDry")
              ELSE BackendOff(m)
    IN  IF value # m1.targetMode THEN [m1 EXCEPT !.targetMode = value] ELSE m1

setTargetMode(m0, text) ==
    LET value == toLowerCase(text)
        m == Called(m0, "setTargetMode", text)
        m1 == IF value = T_off THEN BackendOff(m)
              ELSE IF value = T_cool
              THEN BackendOnMode(m, "DAIKIN_COOL", "kPanasonicAcCool", "kHitachiAcCool")
              ELSE IF value = T_heat
              THEN BackendOnMode(m, "DAIKIN_HEAT", "kPanasonicAcHeat", "kHitachiAcHeat")
              ELSE IF value = T_fan
              THEN BackendOnMode(m, "DAIKIN_FAN", "kPanasonicAcFan", "kHitachiAcFan")
              ELSE IF value = T_auto
              THEN BackendOnMode(m, "DAIKIN_AUTO", "kPanasonicAcAuto", "kHitachiAcAuto")
              ELSE IF value = T_dry
              THEN BackendOnMode(m, "DAIKIN_DRY", "kPanasonicAcDry", "kHitachiAcDry")
              ELSE BackendOff(m)
        \* the unrecognized branch assigns value = "off" inside each variant's arm
        v1 == IF value \in ModeEnum THEN value
              ELSE IF m.mode \in Variants THEN T_off ELSE value
    IN  IF v1 # m1.targetMode THEN [m1 EXCEPT !.targetMode = v1] ELSE m1

setTargetFanSpeed(m0, text) ==
    LET value == toLowerCase(text)
        m == Called(m0, "setTargetFanSpeed", text)
        m1 == IF value = T_auto
              THEN BackendFan(m, "DAIKIN_FAN_AUTO", "kPanasonicAcFanAuto", "kHitachiAcFanAuto")
              ELSE IF value = T_min
              THEN BackendFan(m, "DAIKIN_FAN_MIN", "kPanasonicAcFanMin", "kHitachiAcFanLow")
              ELSE IF value = T_max
              THEN BackendFan(m, "DAIKIN_FAN_MAX", "kPanasonicAcFanMax", "kHitachiAcFanHigh")
              ELSE BackendFan(m, "DAIKIN_FAN_AUTO", "kPanasonicAcFanAuto", "kHitachiAcFanAuto")
        v1 == IF value \in FanEnum THEN value ELSE T_auto
    IN  IF v1 # m1.targetFanSpeed THEN [m1 EXCEPT !.targetFanSpeed = v1] ELSE m1

\* Mutant: setTemperature that tells the backend only a changed value.
setTemperature_onlyOnChange(m0, value) ==
    LET m == Called(m0, "setTemperature", value)
        m1 == IF value = m.targetTemperature THEN m
              ELSE IF m.mode = DAIKIN THEN Dispatch(m, "daikin", "setTemp", value)
              ELSE IF m.mode = PANASONIC THEN Dispatch(m, "panasonic", "setTemp", value)
              ELSE IF m.mode = HITACHI THEN Dispatch(m, "hitachi", "setTemp", value)
              ELSE m
    IN  [m1 EXCEPT !.targetTemperature = value]

\* Mutant: setTemperature that also writes the value at S_FAN.
setTemperature_persists(m0, value) ==
    LET m == Called(m0, "setTemperature", value)
        m1 == IF m.mode = DAIKIN THEN Dispatch(m, "daikin", "setTemp", value)
              ELSE IF m.mode = PANASONIC THEN Dispatch(m, "panasonic", "setTemp", value)
              ELSE IF m.mode = HITACHI THEN Dispatch(m, "hitachi", "setTemp", value)
              ELSE m
    IN  set([m1 EXCEPT !.targetTemperature = value], S_FAN, value)

setTemperature(m0, value) ==
    LET m == Called(m0, "setTemperature", value)
        m1 == IF m.mode = DAIKIN THEN Dispatch(m, "daikin", "setTemp", value)
              ELSE IF m.mode = PANASONIC THEN Dispatch(m, "panasonic", "setTemp", value)
              ELSE IF m.mode = HITACHI THEN Dispatch(m, "hitachi", "setTemp", value)
              ELSE m
    IN  [m1 EXCEPT !.targetTemperature = value]

\* Mutant: setVerticalSwing that stores and writes without comparing.
setVerticalSwing_alwaysWrites(m0, value) ==
    LET m == Called(m0, "setVerticalSwing", value)
        m1 == IF m.mode = DAIKIN
              THEN Dispatch(m, "daikin", "setSwingVertical", value)
              ELSE IF m.mode = PANASONIC
              THEN Dispatch(m, "panasonic", "setSwingVertical",
                            IF value THEN "kPanasonicAcSwingVAuto"
                                     ELSE "kPanasonicAcSwingVHighest")
              ELSE IF m.mode = HITACHI
              THEN Dispatch(m, "hitachi", "setSwingVertical", value)
              ELSE m
    IN  set([m1 EXCEPT !.verticalSwing = value], S_VS, IF value THEN 1 ELSE 0)

setVerticalSwing(m0, value) ==
    LET m == Called(m0, "setVerticalSwing", value)
        m1 == IF m.mode = DAIKIN
              THEN Dispatch(m, "daikin", "setSwingVertical", value)
              ELSE IF m.mode = PANASONIC
              THEN Dispatch(m, "panasonic", "setSwingVertical",
                            IF value THEN "kPanasonicAcSwingVAuto"
                                     ELSE "kPanasonicAcSwingVHighest")
              ELSE IF m.mode = HITACHI
              THEN Dispatch(m, "hitachi", "setSwingVertical", value)
              ELSE m
    IN  IF value # m1.verticalSwing
        THEN set([m1 EXCEPT !.verticalSwing = value], S_VS, IF value THEN 1 ELSE 0)
        ELSE m1

setHorizontalSwing(m0, value) ==
    LET m == Called(m0, "setHorizontalSwing", value)
        m1 == IF m.mode = DAIKIN
              THEN Dispatch(m, "daikin", "setSwingHorizontal", value)
              ELSE IF m.mode = PANASONIC
              THEN Dispatch(m, "panasonic", "setSwingHorizontal",
                            IF value THEN "kPanasonicAcSwingHAuto"
                                     ELSE "kPanasonicAcSwingHMiddle")
              ELSE IF m.mode = HITACHI
              THEN Dispatch(m, "hitachi", "setSwingHorizontal", value)
              ELSE m
    IN  IF value # m1.horizontalSwing
        THEN set([m1 EXCEPT !.horizontalSwing = value], S_HS, IF value THEN 1 ELSE 0)
        ELSE m1

RECURSIVE setQuietMode(_, _), setPowerfulMode(_, _)

\* Mutant: setQuietMode that calls setPowerfulMode(false) whatever its value.
setQuietMode_alwaysCallsBack(m0, value) ==
    LET m == Called(m0, "setQuietMode", value)
        m1 == IF m.mode = DAIKIN THEN Dispatch(m, "daikin", "setQuiet", value)
              ELSE IF m.mode = PANASONIC THEN Dispatch(m, "panasonic", "setQuiet", value)
              ELSE m
        m2 == IF value # m1.quietMode
              THEN set([m1 EXCEPT !.quietMode = value], S_QM, IF value THEN 1 ELSE 0)
              ELSE m1
    IN  setPowerfulMode(m2, FALSE)

setQuietMode(m0, value) ==
    LET m == Called(m0, "setQuietMode", value)
        \* the HITACHI arm is empty
        m1 == IF m.mode = DAIKIN THEN Dispatch(m, "daikin", "setQuiet", value)
              ELSE IF m.mode = PANASONIC THEN Dispatch(m, "panasonic", "setQuiet", value)
              ELSE m
        m2 == IF value # m1.quietMode
              THEN set([m1 EXCEPT !.quietMode = value], S_QM, IF value THEN 1 ELSE 0)
              ELSE m1
    IN  \* cannot be powerful and quiet
        IF value THEN setPowerfulMode(m2, FALSE) ELSE m2

\* Mutant: setPowerfulMode that leaves quietMode alone.
setPowerfulMode_keepsQuiet(m0, value) ==
    LET m == Called(m0, "setPowerfulMode", value)
        m1 == IF m.mode = DAIKIN THEN Dispatch(m, "daikin", "setPowerful", value)
              ELSE IF m.mode = PANASONIC THEN Dispatch(m, "panasonic", "setPowerful", value)
              ELSE m
    IN  IF value # m1.powerfulMode
        THEN set([m1 EXCEPT !.powerfulMode = value], S_PM, IF value THEN 1 ELSE 0)
        ELSE m1

setPowerfulMode(m0, value) ==
    LET m == Called(m0, "setPowerfulMode", value)
        \* the HITACHI arm is empty
        m1 == IF m.mode = DAIKIN THEN Dispatch(m, "daikin", "setPowerful", value)
              ELSE IF m.mode = PANASONIC THEN Dispatch(m, "panasonic", "setPowerful", value)
              ELSE m
        m2 == IF value # m1.powerfulMode
              THEN set([m1 EXCEPT !.powerfulMode = value], S_PM, IF value THEN 1 ELSE 0)
              ELSE m1
    IN  \* cannot be quiet and powerful
        IF value THEN setQuietMode(m2, FALSE) ELSE m2

(***************************************************************************)
(* Sensor, serialization, broadcast.                                       *)
(***************************************************************************)
\* The float not-a-number, as a value outside every reading.
NaN == 9999

isnan(x) == x = NaN

\* dht.readHumidity() and dht.readTemperature() returned these.
Sensed(m, humidity, temp) ==
    Emit(m, [kind |-> "read", humidity |-> humidity, temp |-> temp])

\* Mutant: getWeather that keeps each valid reading on its own.
getWeather_eachOnItsOwn(m0, humidity, temp) ==
    LET m == Sensed(m0, humidity, temp)
    IN  [m EXCEPT !.currentTemperature = IF isnan(temp) THEN @ ELSE temp,
                  !.currentHumidity = IF isnan(humidity) THEN @ ELSE humidity]

getWeather(m0, humidity, temp) ==
    LET m == Sensed(m0, humidity, temp)
    IN  IF isnan(humidity) \/ isnan(temp)
        THEN m
        ELSE [m EXCEPT !.currentTemperature = temp, !.currentHumidity = humidity]

\* Mutant: toJson without the sensor readings.
toJson_withoutReadings(m) ==
    [targetMode |-> m.targetMode,
     targetFanSpeed |-> m.targetFanSpeed,
     targetTemperature |-> m.targetTemperature,
     verticalSwing |-> m.verticalSwing,
     horizontalSwing |-> m.horizontalSwing,
     quietMode |-> m.quietMode,
     powerfulMode |-> m.powerfulMode]

toJson(m) ==
    [currentTemperature |-> m.currentTemperature,
     currentHumidity |-> m.currentHumidity,
     targetMode |-> m.targetMode,
     targetFanSpeed |-> m.targetFanSpeed,
     targetTemperature |-> m.targetTemperature,
     verticalSwing |-> m.verticalSwing,
     horizontalSwing |-> m.horizontalSwing,
     quietMode |-> m.quietMode,
     powerfulMode |-> m.powerfulMode]

broadcast(m) == Emit(m, [kind |-> "broadcast", json |-> toJson(m)])

(***************************************************************************)
(* The command cycle.                                                      *)
(***************************************************************************)
\* Mutant: send that saves before it broadcasts.
send_savesFirst(m) ==
    LET m1 == IF m.mode = DAIKIN THEN Emit(m, [kind |-> "send", obj |-> "daikin"])
              ELSE IF m.mode = PANASONIC
              THEN Emit(m, [kind |-> "send", obj |-> "panasonic"])
              ELSE IF m.mode = HITACHI
              THEN Emit(m, [kind |-> "send", obj |-> "hitachi"])
              ELSE m
    IN  broadcast(save(m1))

send(m) ==
    LET m1 == IF m.mode = DAIKIN THEN Emit(m, [kind |-> "send", obj |-> "daikin"])
              ELSE IF m.mode = PANASONIC
              THEN Emit(m, [kind |-> "send", obj |-> "panasonic"])
              ELSE IF m.mode = HITACHI
              THEN Emit(m, [kind |-> "send", obj |-> "hitachi"])
              ELSE m
    IN  save(broadcast(m1))

(***************************************************************************)
(* The control loop's timer: Ac::loop after webSocket.loop() has returned  *)
(* (the events webSocket.loop() delivers are webSocketEvent calls).        *)
(***************************************************************************)
\* millis() returned this, and loopLastRun was read.
Clocked(m, currentMillis) ==
    Emit(m, [kind |-> "millis", now |-> currentMillis, last |-> m.loopLastRun])

\* Mutant: loop that runs the command cycle instead of the broadcast.
loop_sends(m0, currentMillis, humidity, temp) ==
    LET m == Clocked(m0, currentMillis)
    IN  IF AtLeast(Sub32(currentMillis, First(m.loopLastRun)), Interval)
        THEN send(getWeather([m EXCEPT !.loopLastRun = currentMillis], humidity, temp))
        ELSE m

\* Mutant: loop that compares the clock with loopLastRun + 30000.
loop_comparesSum(m0, currentMillis, humidity, temp) ==
    LET m == Clocked(m0, currentMillis)
        low == First(m.loopLastRun)[2] + Interval
        due == U32(First(m.loopLastRun)[1] + (IF low >= W16 THEN 1 ELSE 0), low)
    IN  IF currentMillis[1] > due[1]
           \/ (currentMillis[1] = due[1] /\ currentMillis[2] >= due[2])
        THEN broadcast(getWeather([m EXCEPT !.loopLastRun = currentMillis],
                                  humidity, temp))
        ELSE m

loop(m0, currentMillis, humidity, temp) ==
    LET m == Clocked(m0, currentMillis)
    IN  IF AtLeast(Sub32(currentMillis, First(m.loopLastRun)), Interval)
        THEN broadcast(getWeather([m EXCEPT !.loopLastRun = currentMillis],
                                  humidity, temp))
        ELSE m

(***************************************************************************)
(* Inbound messages.  A payload is the text of one message: the members it *)
(* spells out, one optional member per recognized key plus one unknown     *)
(* key, written in KeyOrder, and the place of its first syntax error       *)
(* (err = 0: none; err = i: just before the i-th key of KeyOrder, so that  *)
(* the parser has stored the members before it and none from it on).       *)
(***************************************************************************)
KeyOrder == <<"unknownKey", "targetMode", "targetFanSpeed", "targetTemperature",
              "verticalSwing", "horizontalSwing", "quietMode", "powerfulMode">>

KeyIndex(k) == CHOOSE i \in 1..Len(KeyOrder) : KeyOrder[i] = k

Member(v) == [has |-> TRUE, val |-> v]
NoText == [has |-> FALSE, val |-> T_empty]
NoInt == [has |-> FALSE, val |-> 0]
NoBool == [has |-> FALSE, val |-> FALSE]

Absent(k) ==
    IF k \in {"targetMode", "targetFanSpeed"} THEN NoText
    ELSE IF k \in {"targetTemperature", "unknownKey"} THEN NoInt
    ELSE NoBool

\* deserializeJson(doc, payload): the document holds the members read before
\* the first syntax error.
deserializeJson(payload) ==
    [k \in DOMAIN payload.members |->
        IF payload.err # 0 /\ KeyIndex(k) >= payload.err
        THEN Absent(k)
        ELSE payload.members[k]]

containsKey(doc, k) == doc[k].has

\* if (doc.containsKey(key)) setter(doc[key]);
IfContainsKey(m, doc, key, setter(_, _)) ==
    IF containsKey(doc, key) THEN setter(m, doc[key].val) ELSE m

\* The setters of the members of doc, in the order of the code; a member
\* that is absent reads as its zero value (false).
ApplyInOrder(m, doc, verticalAlways, powerfulFirst) ==
    LET m1 == IfContainsKey(m, doc, "targetMode", setTargetMode)
        m2 == IfContainsKey(m1, doc, "targetFanSpeed", setTargetFanSpeed)
        m3 == IfContainsKey(m2, doc, "targetTemperature", setTemperature)
        m4 == IF verticalAlways \/ containsKey(doc, "verticalSwing")
              THEN setVerticalSwing(m3, doc["verticalSwing"].val) ELSE m3
        m5 == IfContainsKey(m4, doc, "horizontalSwing", setHorizontalSwing)
        q(x) == IF containsKey(doc, "quietMode")
                THEN setQuietMode(x, doc["quietMode"].val) ELSE x
        p(x) == IF containsKey(doc, "powerfulMode")
                THEN setPowerfulMode(x, doc["powerfulMode"].val) ELSE x
    IN  IF powerfulFirst THEN q(p(m5)) ELSE p(q(m5))

\* Mutant: incomingRequest that calls setVerticalSwing without containsKey.
incomingRequest_noKeyCheck(m0, payload) ==
    LET doc == deserializeJson(payload)
    IN  send(ApplyInOrder(Emit(m0, [kind |-> "request", doc |-> doc]), doc, TRUE, FALSE))

\* Mutant: incomingRequest that gives up on a text with a syntax error.
incomingRequest_abortsOnError(m0, payload) ==
    LET doc == deserializeJson(payload)
        m == Emit(m0, [kind |-> "request", doc |-> doc])
    IN  IF payload.err # 0 THEN m ELSE send(ApplyInOrder(m, doc, FALSE, FALSE))

\* Mutant: incomingRequest that applies powerfulMode before quietMode.
incomingRequest_powerfulFirst(m0, payload) ==
    LET doc == deserializeJson(payload)
    IN  send(ApplyInOrder(Emit(m0, [kind |-> "request", doc |-> doc]), doc, FALSE, TRUE))

incomingRequest(m0, payload) ==
    LET doc == deserializeJson(payload)
        m == Emit(m0, [kind |-> "request", doc |-> doc])
        m1 == IfContainsKey(m, doc, "targetMode", setTargetMode)
        m2 == IfContainsKey(m1, doc, "targetFanSpeed", setTargetFanSpeed)
        m3 == IfContainsKey(m2, doc, "targetTemperature", setTemperature)
        m4 == IfContainsKey(m3, doc, "verticalSwing", setVerticalSwing)
        m5 == IfContainsKey(m4, doc, "horizontalSwing", setHorizontalSwing)
        m6 == IfContainsKey(m5, doc, "quietMode", setQuietMode)
        m7 == IfContainsKey(m6, doc, "powerfulMode", setPowerfulMode)
    IN  send(m7)

(***************************************************************************)
(* Construction and startup.                                               *)
(***************************************************************************)
\* The fields a request may give and the quiet / powerful pair cannot force.
TrackedKeys == {"targetMode", "targetFanSpeed", "targetTemperature",
                "verticalSwing", "horizontalSwing"}

Tracked(m) ==
    [targetMode |-> m.targetMode,
     targetFanSpeed |-> m.targetFanSpeed,
     targetTemperature |-> m.targetTemperature,
     verticalSwing |-> m.verticalSwing,
     horizontalSwing |-> m.horizontalSwing]

\* loopLastRun before anything has read or assigned it.
Unassigned == <<>>

\* Ac::Ac: the defaults.  The constructor assigns neither dirty nor
\* loopLastRun: garbage is whatever dirty holds, and what loopLastRun holds
\* is drawn when Ac::loop first reads it.  The store is what the flash
\* holds; the encoder objects are newly constructed.
Ac(variant, garbage, stored) ==
    [mode |-> variant,
     currentTemperature |-> 0,
     currentHumidity |-> 0,
     targetMode |-> T_off,
     targetFanSpeed |-> T_auto,
     targetTemperature |-> DefaultTemperature,
     verticalSwing |-> TRUE,
     horizontalSwing |-> TRUE,
     quietMode |-> FALSE,
     powerfulMode |-> FALSE,
     dirty |-> garbage,
     eeprom |-> stored,
     flash |-> stored,
     unflushed |-> FALSE,
     loopLastRun |-> Unassigned,
     backend |-> Untold,
     given |-> [targetMode |-> T_off,
                targetFanSpeed |-> T_auto,
                targetTemperature |-> DefaultTemperature,
                verticalSwing |-> TRUE,
                horizontalSwing |-> TRUE],
     log |-> <<>>]

\* The call load(location): EEPROM.read of the buffer.
Loaded(m, location) ==
    Emit(m, [kind |-> "load", loc |-> location, val |-> load(m, location)])

\* setter(field): a setter called with the object's own field.
WithOwn(m, setter(_, _), field) == setter(m, m[field])

\* Mutant: restore that ends with the command cycle.
restore_thenSends(m0) ==
    LET m == Loaded(Loaded(Loaded(Loaded(m0, S_VS), S_HS), S_QM), S_PM)
        m1 == [m EXCEPT !.verticalSwing = (load(m0, S_VS) = 1),
                        !.horizontalSwing = (load(m0, S_HS) = 1),
                        !.quietMode = (load(m0, S_QM) = 1),
                        !.powerfulMode = (load(m0, S_PM) = 1)]
        m2 == WithOwn(m1, setTargetMode, "targetMode")
        m3 == WithOwn(m2, setTargetFanSpeed, "targetFanSpeed")
        m4 == WithOwn(m3, setVerticalSwing, "verticalSwing")
        m5 == WithOwn(m4, setHorizontalSwing, "horizontalSwing")
        m6 == WithOwn(m5, setQuietMode, "quietMode")
    IN  send(WithOwn(m6, setPowerfulMode, "powerfulMode"))

\* Mutant: restore that takes every byte other than 0 for true.
restore_nonzeroIsTrue(m0) ==
    LET m == Loaded(Loaded(Loaded(Loaded(m0, S_VS), S_HS), S_QM), S_PM)
        m1 == [m EXCEPT !.verticalSwing = (load(m0, S_VS) # 0),
                        !.horizontalSwing = (load(m0, S_HS) # 0),
                        !.quietMode = (load(m0, S_QM) # 0),
                        !.powerfulMode = (load(m0, S_PM) # 0)]
        m2 == WithOwn(m1, setTargetMode, "targetMode")
        m3 == WithOwn(m2, setTargetFanSpeed, "targetFanSpeed")
        m4 == WithOwn(m3, setVerticalSwing, "verticalSwing")
        m5 == WithOwn(m4, setHorizontalSwing, "horizontalSwing")
        m6 == WithOwn(m5, setQuietMode, "quietMode")
    IN  WithOwn(m6, setPowerfulMode, "powerfulMode")

restore(m0) ==
    LET m == Loaded(Loaded(Loaded(Loaded(m0, S_VS), S_HS), S_QM), S_PM)
        m1 == [m EXCEPT !.verticalSwing = (load(m0, S_VS) = 1),
                        !.horizontalSwing = (load(m0, S_HS) = 1),
                        !.quietMode = (load(m0, S_QM) = 1),
                        !.powerfulMode = (load(m0, S_PM) = 1)]
        m2 == WithOwn(m1, setTargetMode, "targetMode")
        m3 == WithOwn(m2, setTargetFanSpeed, "targetFanSpeed")
        m4 == WithOwn(m3, setVerticalSwing, "verticalSwing")
        m5 == WithOwn(m4, setHorizontalSwing, "horizontalSwing")
        m6 == WithOwn(m5, setQuietMode, "quietMode")
    IN  WithOwn(m6, setPowerfulMode, "powerfulMode")

\* Ac::begin: EEPROM.begin reads the flash into the buffer.
begin(m, humidity, temp) ==
    getWeather(restore([m EXCEPT !.eeprom = m.flash]), humidity, temp)

\* Mutant: webSocketEvent that sets the default temperature again for a
\* new connection.
webSocketEvent_reconnectDefaults(m, type, payload) ==
    IF type = "WStype_CONNECTED" THEN broadcast(setTemperature(m, DefaultTemperature))
    ELSE IF type = "WStype_TEXT" THEN incomingRequest(m, payload)
    ELSE m

\* Ac::webSocketEvent
webSocketEvent(m, type, payload) ==
    IF type = "WStype_CONNECTED" THEN broadcast(m)
    ELSE IF type = "WStype_TEXT" THEN incomingRequest(m, payload)
    ELSE m

(***************************************************************************)
(* Inputs.                                                                 *)
(***************************************************************************)
\* The elements of S that satisfy P, as an enumerated set.
Filtered(S, P(_)) == UNION {IF P(x) THEN {x} ELSE {} : x \in S}

\* Texts the setters are called with.
ModeInputs == ModeEnum \cup {T_COOL, T_Heat, T_oFf, T_DRY, T_bogus, T_empty, T_offf}
FanInputs == FanEnum \cup {T_MAX, T_Min, T_bogus, T_empty}

\* Temperatures given: DefaultTemperature - 5 up to
\* DefaultTemperature - 5 + MaxTempStep, and the default itself.
MaxTempStep == 0
TempInputs == {DefaultTemperature - 5 + i : i \in 0..MaxTempStep} \cup {DefaultTemperature}

\* Sensor readings (temperature in Celsius, relative humidity).
TempReadings == {NaN, 21}
HumidityReadings == {NaN, 40}

\* Bytes the flash may hold at first boot: erased (255) or 1.
InitBytes == {1, 255}

\* What millis() returns to the running device: 0 or 2^31.
CoarseMillis == {U32(0, 0), U32(W16 \div 2, 0)}

\* What millis() returns to the timer on its own: around one interval after
\* 0, 2^16, and the last interval before the clock wraps.
FineMillis ==
    {U32(0, 0), U32(0, 1), U32(0, Interval - 1), U32(0, Interval),
     U32(0, Interval + 1), U32(1, 0), U32(W16 - 1, W16 - Interval),
     U32(W16 - 1, W16 - 1)}

\* The unassigned loopLastRun holds any 32-bit value.  Ac::loop compares it
\* with a clock reading p only: it is less than Interval before p exactly
\* when it is one of p - (Interval - 1) .. p.  The values where the answer
\* changes for some reading of points are p - (Interval - 1) and p + 1.
Breaks(points) ==
    {Sub32(p, U32(0, Interval - 1)) : p \in points}
        \cup {Sub32(p, U32(W16 - 1, W16 - 1)) : p \in points}

\* The break that follows lo, counting up from lo modulo 2^32 (lo itself
\* when it is the only one).
NextBreak(lo, breaks) ==
    IF breaks = {lo} THEN lo
    ELSE CHOOSE b \in breaks \ {lo} :
            \A c \in breaks \ {lo} : ~Before(Sub32(c, lo), Sub32(b, lo))

\* All 2^32 values, as the ranges from one break up to the value before the
\* next: every value is in exactly one range.
Ranges(points) ==
    LET breaks == Breaks(points)
    IN  {Range(lo, Sub32(NextBreak(lo, breaks), U32(0, 1))) : lo \in breaks}

Opt(absent, values) == {absent} \cup {Member(v) : v \in values}

MembersOf(p) == {k \in DOMAIN p.members : p.members[k].has}

\* The texts of messages over the given values, well-formed (err = 0) or
\* with a syntax error in the first member (err = 1) or in the last (err = 8).
Texts(modes, fans, temps) ==
    [members : [unknownKey : Opt(NoInt, {7}),
                targetMode : Opt(NoText, modes),
                targetFanSpeed : Opt(NoText, fans),
                targetTemperature : Opt(NoInt, temps),
                verticalSwing : Opt(NoBool, BOOLEAN),
                horizontalSwing : Opt(NoBool, BOOLEAN),
                quietMode : Opt(NoBool, BOOLEAN),
                powerfulMode : Opt(NoBool, BOOLEAN)],
     err : {0, 1, 8}]

\* A malformed text is counted once for each document it parses to: with the
\* error in the first member it spells out only that member, with the error
\* in the last member it spells out that member (powerfulMode: true).
Canonical(p) ==
    /\ p.err = 1 => MembersOf(p) = {"unknownKey"}
    /\ p.err = 8 => p.members["powerfulMode"] = Member(TRUE)

(***************************************************************************)
(* The device: boot, events of the control loop, power cycle.              *)
(***************************************************************************)
\* A message of the running device spells out at most one member, or
\* quietMode and powerfulMode together.
FewMembers(p) ==
    /\ Canonical(p)
    /\ \/ Cardinality(MembersOf(p)) <= 1
       \/ MembersOf(p) = {"quietMode", "powerfulMode"}

\* The texts of one request: every combination of members.
RequestPayloads ==
    Filtered(Texts({T_COOL, T_bogus}, {T_MAX}, TempInputs \ {DefaultTemperature}),
             Canonical)

DevicePayloads == Filtered(RequestPayloads, FewMembers)

Init ==
    /\ \E variant \in Variants, garbage \in BOOLEAN, stored \in [Offsets -> InitBytes] :
          LET m == Ac(variant, garbage, stored)
          IN  /\ mode = m.mode
              /\ currentTemperature = m.currentTemperature
              /\ currentHumidity = m.currentHumidity
              /\ targetMode = m.targetMode
              /\ targetFanSpeed = m.targetFanSpeed
              /\ targetTemperature = m.targetTemperature
              /\ verticalSwing = m.verticalSwing
              /\ horizontalSwing = m.horizontalSwing
              /\ quietMode = m.quietMode
              /\ powerfulMode = m.powerfulMode
              /\ dirty = m.dirty
              /\ eeprom = m.eeprom
              /\ flash = m.flash
              /\ unflushed = m.unflushed
              /\ loopLastRun = m.loopLastRun
              /\ backend = m.backend
              /\ given = m.given
              /\ log = m.log
    /\ held = <<>>
    /\ op = "Ac"

Running == op # "Ac"

TextOp(payload) == IF payload.err = 0 THEN "text" ELSE "text_malformed"

\* The value a setter stores for what a request gives.
Coerced(k, v) ==
    IF k = "targetMode"
    THEN IF NamesOneOf(v, ModeEnum) THEN Named(v, ModeEnum) ELSE T_off
    ELSE IF k = "targetFanSpeed"
    THEN IF NamesOneOf(v, FanEnum) THEN Named(v, FanEnum) ELSE T_auto
    ELSE v

\* given after the request payload: what the request gives, for the keys it
\* holds; what was given before, for the others.
Noted(m, payload) ==
    LET doc == deserializeJson(payload)
        before == m.given
    IN  [m EXCEPT !.given = [k \in TrackedKeys |->
                                IF containsKey(doc, k)
                                THEN Coerced(k, doc[k].val)
                                ELSE before[k]]]

\* given at the end of startup: the fields as restore left them.
Started(m) == [m EXCEPT !.given = Tracked(m)]

\* setup(): Ac::begin on the constructed object.
Begin ==
    /\ op = "Ac"
    /\ \E humidity \in HumidityReadings, temp \in TempReadings :
          Becomes(Started(begin(St, humidity, temp)), "begin", held)

\* webSocketEvent(WStype_CONNECTED)
Connected ==
    /\ Running
    /\ Becomes(webSocketEvent(St, "WStype_CONNECTED", <<>>), "connected", <<>>)

\* webSocketEvent(WStype_TEXT) with a text among payloads
TextOf(payloads) ==
    /\ Running
    /\ \E payload \in payloads :
          Becomes(Noted(webSocketEvent(St, "WStype_TEXT", payload), payload),
                  TextOp(payload), <<>>)

Text == TextOf(DevicePayloads)

\* webSocketEvent(WStype_DISCONNECTED / WStype_PING / WStype_PONG)
OtherEvent ==
    /\ Running
    /\ \E type \in {"WStype_DISCONNECTED", "WStype_PING", "WStype_PONG"} :
          Becomes(webSocketEvent(St, type, <<>>), "other", <<>>)

\* Power is lost and returns: the object is constructed again, the buffer is
\* gone, the flash is kept, the clock starts again.  held remembers the
\* fields for the restore that follows.
PowerCycle ==
    /\ Running
    /\ \E garbage \in BOOLEAN :
          Becomes(Ac(mode, garbage, flash), "Ac",
                  <<[persisted |-> <<verticalSwing, horizontalSwing,
                                     quietMode, powerfulMode>>,
                     targets |-> <<targetMode, targetFanSpeed,
                                   targetTemperature>>]>>)

Next == Begin \/ Connected \/ Text \/ OtherEvent \/ PowerCycle

Spec == Init /\ [][Next]_vars

(***************************************************************************)
(* The control loop of the running device: events of the transport and     *)
(* iterations of Ac::loop.                                                 *)
(***************************************************************************)
LoopOp(m) == IF \E i \in 1..Len(m.log) : m.log[i].kind = "broadcast"
             THEN "refresh" ELSE "loop"

\* The object when loopLastRun is read: a member nothing has assigned
\* holds a value of the range garbageRun, and holds it until it is assigned.
Read(m, garbageRun) ==
    IF m.loopLastRun = Unassigned THEN [m EXCEPT !.loopLastRun = garbageRun] ELSE m

\* One iteration of Ac::loop (after webSocket.loop() has returned) at a
\* clock reading among points; an unassigned loopLastRun holds any value.
LoopAt(points) ==
    /\ Running
    /\ \E currentMillis \in points,
          garbageRun \in (IF loopLastRun = Unassigned THEN Ranges(points) ELSE {loopLastRun}),
          humidity \in HumidityReadings, temp \in TempReadings :
          LET m == loop(Read(St, garbageRun), currentMillis, humidity, temp)
          IN  Becomes(m, LoopOp(m), <<>>)

Loop == LoopAt(CoarseMillis)

\* A message of the control loop is well-formed and spells out at most one
\* member, one of TrackedKeys.
OneMember(p) ==
    /\ p.err = 0
    /\ Cardinality(MembersOf(p)) <= 1
    /\ MembersOf(p) \subseteq TrackedKeys

RunPayloads == Filtered(DevicePayloads, OneMember)

TextRun == TextOf(RunPayloads)

NextRun == Begin \/ Connected \/ TextRun \/ Loop

SpecRun == Init /\ [][NextRun]_vars

(***************************************************************************)
(* The timer on its own: boot and iterations of Ac::loop.                  *)
(***************************************************************************)
LoopFine == LoopAt(FineMillis)

NextLoop == Begin \/ LoopFine

SpecLoop == Init /\ [][NextLoop]_vars

(***************************************************************************)
(* Any DeviceState: the fields are public, so a caller of the setters or   *)
(* of incomingRequest may find any values in them.  The buffer agrees with *)
(* the persisted fields, as it does on the running device; the flash is    *)
(* erased, nothing being committed yet.                                    *)
(***************************************************************************)
\* The constants <<daikin, panasonic, hitachi>> of a mode and of a fan speed.
ModeConstants(t) ==
    CASE t = T_cool -> <<"DAIKIN_COOL", "kPanasonicAcCool", "kHitachiAcCool">>
      [] t = T_heat -> <<"DAIKIN_HEAT", "kPanasonicAcHeat", "kHitachiAcHeat">>
      [] t = T_fan -> <<"DAIKIN_FAN", "kPanasonicAcFan", "kHitachiAcFan">>
      [] t = T_auto -> <<"DAIKIN_AUTO", "kPanasonicAcAuto", "kHitachiAcAuto">>
      [] t = T_dry -> <<"DAIKIN_DRY", "kPanasonicAcDry", "kHitachiAcDry">>

FanConstants(t) ==
    CASE t = T_min -> <<"DAIKIN_FAN_MIN", "kPanasonicAcFanMin", "kHitachiAcFanLow">>
      [] t = T_max -> <<"DAIKIN_FAN_MAX", "kPanasonicAcFanMax", "kHitachiAcFanHigh">>
      [] OTHER -> <<"DAIKIN_FAN_AUTO", "kPanasonicAcFanAuto", "kHitachiAcFanAuto">>

Byte(b) == IF b THEN 1 ELSE 0

\* The encoder object as the setters leave it for a DeviceState: m is told
\* the power, the mode unless it is off, the fan speed, the temperature, the
\* swings and (the HITACHI object excepted) quiet and powerful.
Primed(variant, tMode, tFan, tTemp, vSwing, hSwing, quiet, powerful) ==
    [s \in Slots |->
        CASE s = "power" -> IF tMode = T_off THEN <<"off">> ELSE <<"on">>
          [] s = "setMode" ->
                IF tMode = T_off THEN <<>> ELSE <<ModeConstants(tMode)[variant]>>
          [] s = "setFan" -> <<FanConstants(tFan)[variant]>>
          [] s = "setTemp" -> <<tTemp>>
          [] s = "setSwingVertical" ->
                IF variant # PANASONIC THEN <<vSwing>>
                ELSE IF vSwing THEN <<"kPanasonicAcSwingVAuto">>
                               ELSE <<"kPanasonicAcSwingVHighest">>
          [] s = "setSwingHorizontal" ->
                IF variant # PANASONIC THEN <<hSwing>>
                ELSE IF hSwing THEN <<"kPanasonicAcSwingHAuto">>
                               ELSE <<"kPanasonicAcSwingHMiddle">>
          [] s = "setQuiet" -> IF variant = HITACHI THEN <<>> ELSE <<quiet>>
          [] s = "setPowerful" -> IF variant = HITACHI THEN <<>> ELSE <<powerful>>]

InitAny ==
    /\ mode \in Variants
    /\ currentTemperature = 0
    /\ currentHumidity = 0
    /\ targetMode \in {T_off, T_cool}
    /\ targetFanSpeed \in {T_auto, T_max}
    /\ targetTemperature = DefaultTemperature
    /\ verticalSwing \in BOOLEAN
    /\ horizontalSwing \in BOOLEAN
    /\ quietMode \in BOOLEAN
    /\ powerfulMode \in BOOLEAN
    /\ dirty \in BOOLEAN
    /\ eeprom = (S_VS :> Byte(verticalSwing)) @@ (S_HS :> Byte(horizontalSwing))
                @@ (S_QM :> Byte(quietMode)) @@ (S_PM :> Byte(powerfulMode))
    /\ flash = [o \in Offsets |-> 255]
    /\ unflushed = FALSE
    /\ loopLastRun = U32(0, 0)
    /\ backend = Primed(mode, targetMode, targetFanSpeed, targetTemperature,
                        verticalSwing, horizontalSwing, quietMode, powerfulMode)
    /\ given = [targetMode |-> targetMode,
                targetFanSpeed |-> targetFanSpeed,
                targetTemperature |-> targetTemperature,
                verticalSwing |-> verticalSwing,
                horizontalSwing |-> horizontalSwing]
    /\ held = <<>>
    /\ log = <<>>
    /\ op = "any"

(***************************************************************************)
(* One inbound request, from any DeviceState.                              *)
(***************************************************************************)
Request ==
    /\ op = "any"
    /\ \E payload \in RequestPayloads :
          Becomes(Noted(incomingRequest(St, payload), payload), TextOp(payload), <<>>)

SpecRequest == InitAny /\ [][Request]_vars

(***************************************************************************)
(* Sequences of setter calls, from any DeviceState.                        *)
(***************************************************************************)
\* A call's first event names the setter and its argument.
SameCall(e, f) == e.name = f.name /\ e.arg = f.arg

\* "setter_again" when the call repeats the call before it.
CallOp(m) ==
    IF op \in {"setter", "setter_again"} /\ SameCall(log[1], m.log[1])
    THEN "setter_again" ELSE "setter"

Call(m) == Becomes(Started(m), CallOp(m), <<>>)

CallSetTargetMode ==
    \E text \in ModeInputs : Call(setTargetMode(St, text))

CallSetTargetFanSpeed ==
    \E text \in FanInputs : Call(setTargetFanSpeed(St, text))

CallSetTemperature ==
    \E value \in TempInputs : Call(setTemperature(St, value))

CallSetVerticalSwing ==
    \E value \in BOOLEAN : Call(setVerticalSwing(St, value))

CallSetHorizontalSwing ==
    \E value \in BOOLEAN : Call(setHorizontalSwing(St, value))

CallSetQuietMode ==
    \E value \in BOOLEAN : Call(setQuietMode(St, value))

CallSetPowerfulMode ==
    \E value \in BOOLEAN : Call(setPowerfulMode(St, value))

NextSetters ==
    \/ CallSetTargetMode
    \/ CallSetTargetFanSpeed
    \/ CallSetTemperature
    \/ CallSetVerticalSwing
    \/ CallSetHorizontalSwing
    \/ CallSetQuietMode
    \/ CallSetPowerfulMode

SpecSetters == InitAny /\ [][NextSetters]_vars

(***************************************************************************)
(* Reading the log of the last handler.                                    *)
(***************************************************************************)
Positions(kind) == {i \in 1..Len(log) : log[i].kind = kind}

Has(l, kind) == \E i \in 1..Len(l) : l[i].kind = kind

\* The call that was made (setter specifications).
AfterCall(setter) ==
    op \in {"setter", "setter_again"} /\ log[1].name = setter

AfterText == op \in {"text", "text_malformed"}

\* The backend object AC_MODE selects.
Selected ==
    IF mode = DAIKIN THEN "daikin"
    ELSE IF mode = PANASONIC THEN "panasonic" ELSE "hitachi"

DeviceState ==
    <<currentTemperature, currentHumidity, targetMode, targetFanSpeed,
      targetTemperature, verticalSwing, horizontalSwing, quietMode, powerfulMode>>

(***************************************************************************)
(* C1  After every call of setQuietMode or setPowerfulMode, whatever the   *)
(* argument and whatever the DeviceState it started from, quietMode and    *)
(* powerfulMode are not both true.                                         *)
(***************************************************************************)
C1_MutualExclusion ==
    (AfterCall("setQuietMode") \/ AfterCall("setPowerfulMode"))
        => ~(quietMode /\ powerfulMode)

\* setPowerfulMode(true) was called while quietMode was true: quietMode was
\* written back to 0.
C1_Witness ==
    /\ AfterCall("setPowerfulMode")
    /\ log[1].arg = TRUE
    /\ \E i \in Positions("write") : log[i].loc = S_QM /\ log[i].val = 0
    /\ powerfulMode /\ ~quietMode
(***************************************************************************)
(* C2  Processing an inbound request leaves the field of every absent key  *)
(* unchanged.  Stated first as claimed, for all seven keys; it fails for   *)
(* quietMode and powerfulMode, which the other one's setter forces false.  *)
(***************************************************************************)
RecognizedKeys ==
    {"targetMode", "targetFanSpeed", "targetTemperature", "verticalSwing",
     "horizontalSwing", "quietMode", "powerfulMode"}

FieldOf(k) ==
    CASE k = "targetMode" -> targetMode
      [] k = "targetFanSpeed" -> targetFanSpeed
      [] k = "targetTemperature" -> targetTemperature
      [] k = "verticalSwing" -> verticalSwing
      [] k = "horizontalSwing" -> horizontalSwing
      [] k = "quietMode" -> quietMode
      [] k = "powerfulMode" -> powerfulMode

\* The document the last request was parsed to.
Doc == log[1].doc

\* C2 as claimed: every absent key's field is unchanged by the request.
C2_AbsentKeysUntouched ==
    [][AfterText' =>
          \A k \in RecognizedKeys :
              ~Doc'[k].has => FieldOf(k)' = FieldOf(k)]_vars

\* The absent key k is the partner of a quiet / powerful member given as true.
ForcedOff(doc, k) ==
    \/ k = "quietMode" /\ doc["powerfulMode"] = Member(TRUE)
    \/ k = "powerfulMode" /\ doc["quietMode"] = Member(TRUE)

\* C2 amended: every absent key's field is unchanged by the request, except
\* that an absent quietMode is false after a request giving powerfulMode =
\* true, and an absent powerfulMode is false after one giving quietMode = true.
C2_AbsentKeysFrame ==
    [][AfterText' =>
          \A k \in RecognizedKeys :
              ~Doc'[k].has =>
                  IF ForcedOff(Doc', k)
                  THEN FieldOf(k)' = FALSE
                  ELSE FieldOf(k)' = FieldOf(k)]_vars

\* A request holding only powerfulMode = true was processed while quietMode
\* was true: quietMode was written back to 0, targetMode kept its value.
C2_Witness ==
    /\ AfterText
    /\ {k \in RecognizedKeys : Doc[k].has} = {"powerfulMode"}
    /\ Doc["powerfulMode"].val = TRUE
    /\ \E i \in Positions("write") : log[i].loc = S_QM /\ log[i].val = 0
    /\ ~quietMode /\ powerfulMode
    /\ targetMode = T_cool

(***************************************************************************)
(* C3  A setter called a second time in a row with the same argument       *)
(* leaves the DeviceState as the first call left it, writes nothing to the *)
(* store and leaves the dirty flag as it was.                              *)
(***************************************************************************)
C3_SecondCallChangesNothing ==
    [][op' = "setter_again" =>
          /\ DeviceState' = DeviceState
          /\ dirty' = dirty
          /\ eeprom' = eeprom
          /\ flash' = flash
          /\ ~Has(log', "write")]_vars

\* setQuietMode(true) was called twice in a row.
C3_Witness ==
    /\ op = "setter_again"
    /\ log[1].name = "setQuietMode"
    /\ log[1].arg = TRUE
    /\ quietMode /\ ~powerfulMode /\ dirty

(***************************************************************************)
(* C4  A request that contains quietMode = true and powerfulMode = true    *)
(* leaves powerfulMode true and quietMode false, from any DeviceState; the *)
(* setters of the members present run in the fixed order mode, fan speed,  *)
(* temperature, vertical swing, horizontal swing, quiet, powerful.         *)
(***************************************************************************)
SetterOf(k) ==
    CASE k = "targetMode" -> "setTargetMode"
      [] k = "targetFanSpeed" -> "setTargetFanSpeed"
      [] k = "targetTemperature" -> "setTemperature"
      [] k = "verticalSwing" -> "setVerticalSwing"
      [] k = "horizontalSwing" -> "setHorizontalSwing"
      [] k = "quietMode" -> "setQuietMode"
      [] k = "powerfulMode" -> "setPowerfulMode"

CallsOf(k) == {i \in Positions("call") : log[i].name = SetterOf(k)}

Min(S) == CHOOSE x \in S : \A y \in S : x <= y
Max(S) == CHOOSE x \in S : \A y \in S : x >= y

\* The place in the log of the call incomingRequest makes for key k: the
\* first setQuietMode call, the last setPowerfulMode call (the other calls of
\* these two are the nested ones), the only call of any other setter.
RequestCall(k) == IF k = "powerfulMode" THEN Max(CallsOf(k)) ELSE Min(CallsOf(k))

C4_PowerfulWins ==
    AfterText =>
        /\ \A k \in RecognizedKeys : Doc[k].has => CallsOf(k) # {}
        /\ \A j, k \in RecognizedKeys :
              (Doc[j].has /\ Doc[k].has /\ KeyIndex(j) < KeyIndex(k))
                  => RequestCall(j) < RequestCall(k)
        /\ (Doc["quietMode"] = Member(TRUE) /\ Doc["powerfulMode"] = Member(TRUE))
              => (powerfulMode /\ ~quietMode)

\* A request with all seven keys, quietMode and powerfulMode both true.
C4_Witness ==
    /\ AfterText
    /\ \A k \in RecognizedKeys : Doc[k].has
    /\ Doc["quietMode"].val = TRUE /\ Doc["powerfulMode"].val = TRUE
    /\ powerfulMode /\ ~quietMode

(***************************************************************************)
(* C5  setTargetMode with a text that is not, whatever its case, one of    *)
(* off/cool/heat/fan/auto/dry stores "off" and dispatches off (and nothing *)
(* else) to the selected backend; setTargetFanSpeed with a text that is    *)
(* not one of auto/min/max stores "auto"; targetMode and targetFanSpeed    *)
(* always hold a lowercase member of their enum.                           *)
(***************************************************************************)
C5_Coercion ==
    /\ targetMode \in ModeEnum
    /\ targetFanSpeed \in FanEnum
    /\ (AfterCall("setTargetMode") /\ ~NamesOneOf(log[1].arg, ModeEnum))
          => /\ targetMode = T_off
             /\ Len(log) = 2
             /\ log[2] = [kind |-> "dispatch", obj |-> Selected, cmd |-> "off", arg |-> 0]
    /\ (AfterCall("setTargetFanSpeed") /\ ~NamesOneOf(log[1].arg, FanEnum))
          => targetFanSpeed = T_auto

\* setTargetMode("bogus") on the HITACHI variant.
C5_Witness ==
    /\ AfterCall("setTargetMode")
    /\ log[1].arg = T_bogus
    /\ mode = HITACHI
    /\ targetMode = T_off
(***************************************************************************)
(* C6  After a restart (construction, then restore from the committed      *)
(* store) verticalSwing, horizontalSwing, quietMode and powerfulMode are   *)
(* what they were before the restart, and targetMode, targetFanSpeed and   *)
(* targetTemperature are off, auto and 23.                                 *)
(***************************************************************************)
Restarted == op = "begin" /\ Len(held) = 1

C6_RestoreRoundTrip ==
    Restarted =>
        /\ <<verticalSwing, horizontalSwing, quietMode, powerfulMode>>
              = held[1].persisted
        /\ targetMode = T_off
        /\ targetFanSpeed = T_auto
        /\ targetTemperature = DefaultTemperature

\* Restarted with verticalSwing=false, horizontalSwing=true, quietMode=true,
\* powerfulMode=false, after targetMode cool, fan speed max, temperature 18.
C6_Witness ==
    /\ Restarted
    /\ held[1].persisted = <<FALSE, TRUE, TRUE, FALSE>>
    /\ held[1].targets = <<T_cool, T_max, DefaultTemperature - 5>>
    /\ ~verticalSwing /\ horizontalSwing /\ quietMode /\ ~powerfulMode

(***************************************************************************)
(* C7  Every inbound text message runs the command cycle exactly once and  *)
(* after all its setters: one backend transmission, then one broadcast.    *)
(* As claimed, a malformed message and a message with no recognized key    *)
(* change no DeviceState field.                                            *)
(***************************************************************************)
BeforeCycle == Positions("request") \cup Positions("call")
                  \cup Positions("dispatch") \cup Positions("write")

CycleRanOnce ==
    /\ Cardinality(Positions("send")) = 1
    /\ Cardinality(Positions("broadcast")) = 1
    /\ \A s \in Positions("send") :
          /\ log[s].obj = Selected
          /\ \A i \in BeforeCycle : i < s
          /\ \A b \in Positions("broadcast") : s < b

NoKeyRead == \A k \in RecognizedKeys : ~Doc[k].has

C7_MalformedChangesNothing ==
    [][AfterText' =>
          /\ CycleRanOnce'
          /\ (op' = "text_malformed" \/ NoKeyRead') => DeviceState' = DeviceState]_vars

\* C7 as it holds: every inbound text message, malformed ones included,
\* runs the command cycle exactly once and after all its setters; a message
\* from which no recognized key is read (none is spelled out, or the syntax
\* error comes before the first) calls no setter and changes no DeviceState
\* field; a malformed message whose leading members were read has their
\* setters called.
C7_OneCyclePerMessage ==
    [][AfterText' =>
          /\ CycleRanOnce'
          /\ NoKeyRead' => (DeviceState' = DeviceState /\ ~Has(log', "call"))
          /\ ~NoKeyRead' => Has(log', "call")]_vars

\* A malformed message from which nothing is read: the log holds the request,
\* the transmission and the broadcast (and the commit of a dirty store).
C7_Witness ==
    /\ op = "text_malformed"
    /\ NoKeyRead
    /\ log[2].kind = "send"
    /\ log[3].kind = "broadcast"

(***************************************************************************)
(* C8  In every command cycle the backend transmits, then the updated      *)
(* DeviceState is broadcast, then the store is flushed: no flush precedes  *)
(* the broadcast.                                                          *)
(***************************************************************************)
C8_CycleOrder ==
    AfterText =>
        /\ Positions("send") # {}
        /\ Positions("broadcast") # {}
        /\ \A s \in Positions("send"), b \in Positions("broadcast") : s < b
        /\ \A b \in Positions("broadcast"), c \in Positions("commit") : b < c
        /\ \A b \in Positions("broadcast") : log[b].json = toJson(St)
        /\ Has(log, "commit") => flash = eeprom

\* A cycle that ended transmit, broadcast, commit after a store write.
C8_Witness ==
    /\ AfterText
    /\ Has(log, "write")
    /\ Len(log) >= 3
    /\ log[Len(log) - 2].kind = "send"
    /\ log[Len(log) - 1].kind = "broadcast"
    /\ log[Len(log)].kind = "commit"

(***************************************************************************)
(* C9  A command cycle commits the store if and only if a setter changed a *)
(* persisted field since the last commit (or since startup), and the dirty *)
(* flag is false when the cycle has completed, whatever the dirty member   *)
(* held after construction.                                                *)
(***************************************************************************)
C9_FlushIffChanged ==
    AfterText =>
        /\ \A c \in Positions("commit") : log[c].pending
        /\ ~Has(log, "commit") => ~unflushed
        /\ ~dirty

(***************************************************************************)
(* C10  Every call of a setter, nested ones included, calls the selected   *)
(* backend with the command of that setter and its value, also when the    *)
(* value is the stored one.  As claimed this holds for setQuietMode and     *)
(* setPowerfulMode on every variant; the HITACHI arm of these two is empty. *)
(***************************************************************************)
IsDispatch(i, command, value) ==
    /\ i <= Len(log)
    /\ log[i].kind = "dispatch"
    /\ log[i].obj = Selected
    /\ log[i].cmd = command
    /\ log[i].arg = value

\* The call at place i of the log is followed by its backend command.
Dispatched(i) ==
    LET name == log[i].name
        v == log[i].arg
    IN  CASE name = "setTargetMode" ->
                IF NamesOneOf(v, ModeEnum \ {T_off})
                THEN /\ IsDispatch(i + 1, "on", 0)
                     /\ IsDispatch(i + 2, "setMode", ModeConstants(Named(v, ModeEnum))[mode])
                ELSE IsDispatch(i + 1, "off", 0)
          [] name = "setTargetFanSpeed" ->
                IsDispatch(i + 1, "setFan",
                           FanConstants(IF NamesOneOf(v, FanEnum)
                                        THEN Named(v, FanEnum) ELSE T_auto)[mode])
          [] name = "setTemperature" -> IsDispatch(i + 1, "setTemp", v)
          [] name = "setVerticalSwing" ->
                IsDispatch(i + 1, "setSwingVertical",
                           IF mode # PANASONIC THEN v
                           ELSE IF v THEN "kPanasonicAcSwingVAuto"
                                     ELSE "kPanasonicAcSwingVHighest")
          [] name = "setHorizontalSwing" ->
                IsDispatch(i + 1, "setSwingHorizontal",
                           IF mode # PANASONIC THEN v
                           ELSE IF v THEN "kPanasonicAcSwingHAuto"
                                     ELSE "kPanasonicAcSwingHMiddle")
          [] name = "setQuietMode" -> IsDispatch(i + 1, "setQuiet", v)
          [] name = "setPowerfulMode" -> IsDispatch(i + 1, "setPowerful", v)

AfterSetter == op \in {"setter", "setter_again"}

Reading(l) == l[CHOOSE i \in 1..Len(l) : l[i].kind = "read"]

Targets ==
    <<targetMode, targetFanSpeed, targetTemperature, verticalSwing,
      horizontalSwing, quietMode, powerfulMode>>

C11_SensorFailure ==
    [][Has(log', "read") =>
          /\ IF isnan(Reading(log').humidity) \/ isnan(Reading(log').temp)
             THEN /\ currentTemperature' = currentTemperature
                  /\ currentHumidity' = currentHumidity
             ELSE /\ currentTemperature' = Reading(log').temp
                  /\ currentHumidity' = Reading(log').humidity
          /\ op' = "refresh" => Targets' = Targets]_vars

\* A refresh read a valid humidity and no temperature: the humidity was not
\* stored.
C11_Witness ==
    /\ op = "refresh"
    /\ Reading(log).temp = NaN
    /\ Reading(log).humidity = 40
    /\ currentHumidity = 0
    /\ currentTemperature = 0

(***************************************************************************)
(* C12  A periodic refresh calls no setter and no backend, transmits       *)
(* nothing, writes and commits nothing to the store, leaves the dirty flag *)
(* and the seven target fields unchanged, and ends with its one broadcast. *)
(***************************************************************************)
C12_RefreshFrame ==
    [][op' = "refresh" =>
          /\ \A i \in 1..Len(log') :
                log'[i].kind \notin {"call", "dispatch", "send", "write", "commit", "load"}
          /\ Cardinality({i \in 1..Len(log') : log'[i].kind = "broadcast"}) = 1
          /\ log'[Len(log')].kind = "broadcast"
          /\ dirty' = dirty
          /\ Targets' = Targets
          /\ eeprom' = eeprom
          /\ flash' = flash
          /\ backend' = backend]_vars

\* A refresh stored new readings on a device that a request had set to cool.
C12_Witness ==
    /\ op = "refresh"
    /\ targetMode = T_cool
    /\ currentTemperature = 21
    /\ Reading(log).temp = 21
    /\ ~dirty

(***************************************************************************)
(* C13  Ac::begin (restore, then the sensor) transmits nothing, broadcasts *)
(* nothing and commits nothing: restore reads the four bytes at S_VS,      *)
(* S_HS, S_QM, S_PM and calls setTargetMode, setTargetFanSpeed,            *)
(* setVerticalSwing, setHorizontalSwing, setQuietMode and setPowerfulMode  *)
(* in this order, each once, also with the default values (plus the one    *)
(* call the quiet / powerful setter makes of the other when given true).   *)
(***************************************************************************)
Calls == SelectSeq(log, LAMBDA e : e.kind = "call")

Loads == SelectSeq(log, LAMBDA e : e.kind = "load")

\* The setters restore calls for the bytes the flash holds at startup.
RestoreNames ==
    <<"setTargetMode", "setTargetFanSpeed", "setVerticalSwing", "setHorizontalSwing",
      "setQuietMode">>
    \o (IF flash[S_QM] = 1 THEN <<"setPowerfulMode">> ELSE <<>>)
    \o <<"setPowerfulMode">>
    \o (IF flash[S_PM] = 1 /\ flash[S_QM] # 1 THEN <<"setQuietMode">> ELSE <<>>)

RestoreArgs ==
    <<T_off, T_auto, flash[S_VS] = 1, flash[S_HS] = 1, flash[S_QM] = 1>>
    \o (IF flash[S_QM] = 1 THEN <<FALSE>> ELSE <<>>)
    \o <<flash[S_PM] = 1 /\ flash[S_QM] # 1>>
    \o (IF flash[S_PM] = 1 /\ flash[S_QM] # 1 THEN <<FALSE>> ELSE <<>>)

C13_RestoreOnlyPrimes ==
    op = "begin" =>
        /\ ~Has(log, "send")
        /\ ~Has(log, "broadcast")
        /\ ~Has(log, "commit")
        /\ [i \in 1..Len(Loads) |-> Loads[i].loc] = <<S_VS, S_HS, S_QM, S_PM>>
        /\ \A i \in 1..4 : log[i].kind = "load"
        /\ [i \in 1..Len(Calls) |-> Calls[i].name] = RestoreNames
        /\ \A i \in 1..Len(Calls) : Calls[i].arg = RestoreArgs[i]

\* Startup with the default values in the store: the six setters were called.
C13_Witness ==
    /\ op = "begin"
    /\ flash[S_VS] = 1 /\ flash[S_HS] = 1 /\ flash[S_QM] = 255 /\ flash[S_PM] = 255
    /\ Len(Calls) = 6
    /\ Has(log, "dispatch")
    /\ ~Has(log, "write")

(***************************************************************************)
(* C14  Every broadcast, for a new connection, at the end of a command     *)
(* cycle or in a periodic refresh, holds exactly the nine keys, each with  *)
(* the value of its DeviceState field: numbers for the readings and the    *)
(* temperature, lowercase enum texts, booleans.                            *)
(***************************************************************************)
NineKeys ==
    {"currentTemperature", "currentHumidity", "targetMode", "targetFanSpeed",
     "targetTemperature", "verticalSwing", "horizontalSwing", "quietMode",
     "powerfulMode"}

C14_FullBroadcast ==
    \A b \in Positions("broadcast") :
        /\ DOMAIN log[b].json = NineKeys
        /\ log[b].json["currentTemperature"] = currentTemperature
        /\ log[b].json["currentHumidity"] = currentHumidity
        /\ log[b].json["targetMode"] = targetMode
        /\ log[b].json["targetFanSpeed"] = targetFanSpeed
        /\ log[b].json["targetTemperature"] = targetTemperature
        /\ log[b].json["verticalSwing"] = verticalSwing
        /\ log[b].json["horizontalSwing"] = horizontalSwing
        /\ log[b].json["quietMode"] = quietMode
        /\ log[b].json["powerfulMode"] = powerfulMode
        /\ log[b].json["currentTemperature"] \in Int \ {NaN}
        /\ log[b].json["currentHumidity"] \in Int \ {NaN}
        /\ log[b].json["targetTemperature"] \in Int
        /\ log[b].json["targetMode"] \in ModeEnum
        /\ log[b].json["targetFanSpeed"] \in FanEnum
        /\ \A k \in {"verticalSwing", "horizontalSwing", "quietMode", "powerfulMode"} :
              log[b].json[k] \in BOOLEAN

\* The broadcast for a new connection, after a refresh stored readings and
\* requests set cool and powerful.
C14_Witness ==
    /\ op = "connected"
    /\ Len(log) = 1
    /\ log[1].kind = "broadcast"
    /\ log[1].json["targetMode"] = T_cool
    /\ log[1].json["currentTemperature"] = 21
    /\ log[1].json["powerfulMode"]

(***************************************************************************)
(* C15  Only verticalSwing, horizontalSwing, quietMode and powerfulMode    *)
(* are persisted: every store write is made by the setter of one of them,  *)
(* at that field's offset, with 0 or 1; a request that holds only          *)
(* targetMode, targetFanSpeed or targetTemperature writes nothing and does *)
(* not set the dirty flag; S_FAN is neither written nor read.              *)
(***************************************************************************)
OffsetOf(setter) ==
    CASE setter = "setVerticalSwing" -> S_VS
      [] setter = "setHorizontalSwing" -> S_HS
      [] setter = "setQuietMode" -> S_QM
      [] setter = "setPowerfulMode" -> S_PM

PersistedSetters ==
    {"setVerticalSwing", "setHorizontalSwing", "setQuietMode", "setPowerfulMode"}

\* The setter call in l that the event at place i belongs to.
Writer(l, i) == l[Max({j \in 1..i : l[j].kind = "call"})]

WritesArePersisted(l) ==
    \A i \in 1..Len(l) :
        /\ l[i].kind = "write" =>
              /\ l[i].loc \in Offsets
              /\ l[i].loc # S_FAN
              /\ l[i].val \in {0, 1}
              /\ \E j \in 1..i : l[j].kind = "call"
              /\ Writer(l, i).name \in PersistedSetters
              /\ l[i].loc = OffsetOf(Writer(l, i).name)
              /\ l[i].val = Byte(Writer(l, i).arg)
        /\ l[i].kind = "load" => (l[i].loc \in Offsets /\ l[i].loc # S_FAN)

NotPersistedKeys == {"targetMode", "targetFanSpeed", "targetTemperature"}

C15_PersistedSubset ==
    [][/\ WritesArePersisted(log')
       /\ (AfterText' /\ \A k \in RecognizedKeys : Doc'[k].has => k \in NotPersistedKeys)
             => /\ ~Has(log', "write")
                /\ eeprom' = eeprom
                /\ dirty' => dirty]_vars

\* A request that holds only targetTemperature = 18 was processed: no write,
\* no commit, the store as before.
C15_Witness ==
    /\ AfterText
    /\ {k \in RecognizedKeys : Doc[k].has} = {"targetTemperature"}
    /\ targetTemperature = DefaultTemperature - 5
    /\ ~Has(log, "write")
    /\ ~Has(log, "commit")
    /\ Has(log, "send")

(***************************************************************************)
(* C16  Every call of setQuietMode and of setPowerfulMode returns, and the *)
(* recursion is one level deep: called with true the setter calls the      *)
(* other setter with false once and nothing more is called; called with    *)
(* false it calls no setter.                                               *)
(***************************************************************************)
Other(setter) == IF setter = "setQuietMode" THEN "setPowerfulMode" ELSE "setQuietMode"

C16_RecursionDepth ==
    (AfterCall("setQuietMode") \/ AfterCall("setPowerfulMode")) =>
        IF log[1].arg
        THEN /\ Len(Calls) = 2
             /\ Calls[2].name = Other(log[1].name)
             /\ Calls[2].arg = FALSE
        ELSE Len(Calls) = 1

\* setQuietMode(true) while powerfulMode was true: the one nested call
\* wrote powerfulMode back to 0.
C16_Witness ==
    /\ AfterCall("setQuietMode")
    /\ log[1].arg = TRUE
    /\ Len(Calls) = 2
    /\ \E i \in Positions("write") : log[i].loc = S_PM /\ log[i].val = 0
    /\ quietMode /\ ~powerfulMode

(***************************************************************************)
(* C17  An iteration of Ac::loop refreshes exactly when the clock reading  *)
(* is at least 30000 after loopLastRun in 32-bit unsigned arithmetic, also *)
(* when the clock has wrapped since; a refresh assigns the reading to      *)
(* loopLastRun, reads the sensor and then broadcasts, an iteration that    *)
(* does not refresh changes nothing.  Hence two refreshes in a row are at  *)
(* least 30000 apart.                                                      *)
(***************************************************************************)
\* The clock reading now is less than Interval after last, the clock
\* counting 0 .. 2^32 - 1 and then 0 again (halves compared, no subtraction
\* modulo 2^32).
Sooner(now, last) ==
    \/ now[1] = last[1] /\ now[2] >= last[2] /\ now[2] - last[2] < Interval
    \/ now[1] = (last[1] + 1) % W16 /\ now[2] < last[2]
          /\ now[2] + W16 - last[2] < Interval

AfterLoop == op \in {"loop", "refresh"}

C17_RefreshWhenDue ==
    [][AfterLoop' =>
          /\ log'[1].kind = "millis"
          /\ loopLastRun # Unassigned => log'[1].last = loopLastRun
          /\ (op' = "refresh") <=> ~Sooner(log'[1].now, First(log'[1].last))
          /\ (op' = "refresh") <=> ~Sooner(log'[1].now, Last(log'[1].last))
          /\ op' = "refresh" =>
                /\ loopLastRun' = log'[1].now
                /\ Len(log') = 3
                /\ log'[2].kind = "read"
                /\ log'[3].kind = "broadcast"
          /\ op' = "loop" =>
                /\ loopLastRun' = log'[1].last
                /\ Len(log') = 1
                /\ DeviceState' = DeviceState]_vars

\* The refresh before ran 30000 before the clock wraps; this one runs at 0.
C17_Witness ==
    /\ op = "refresh"
    /\ log[1].last = U32(W16 - 1, W16 - Interval)
    /\ log[1].now = U32(0, 0)
    /\ loopLastRun = U32(0, 0)

(***************************************************************************)
(* C18  In every command cycle the selected encoder object was last told,  *)
(* for the power and the mode, the fan speed, the temperature and the two  *)
(* swings, the values of the DeviceState the cycle broadcasts.             *)
(***************************************************************************)
PrimedSlots == {"power", "setMode", "setFan", "setTemp", "setSwingVertical",
                "setSwingHorizontal"}

Consistent(slots) ==
    \A s \in slots :
        backend[s] = Primed(mode, targetMode, targetFanSpeed, targetTemperature,
                            verticalSwing, horizontalSwing, quietMode, powerfulMode)[s]

C18_BackendPrimed ==
    (AfterText /\ Has(log, "send")) => Consistent(PrimedSlots)

(***************************************************************************)
(* C19  When startup has completed, whatever bytes the store held:         *)
(* verticalSwing, horizontalSwing and quietMode are true exactly when      *)
(* their byte is 1, powerfulMode is true exactly when its byte is 1 and    *)
(* the quietMode byte is not, and quietMode and powerfulMode are not both  *)
(* true; no broadcast reports both as true.                                *)
(***************************************************************************)
C19_RestoreAnyBytes ==
    /\ op = "begin" =>
          /\ verticalSwing = (flash[S_VS] = 1)
          /\ horizontalSwing = (flash[S_HS] = 1)
          /\ quietMode = (flash[S_QM] = 1)
          /\ powerfulMode = (flash[S_PM] = 1 /\ flash[S_QM] # 1)
          /\ ~(quietMode /\ powerfulMode)
    /\ \A b \in Positions("broadcast") :
          ~(log[b].json["quietMode"] /\ log[b].json["powerfulMode"])

\* Startup with 1 for quietMode and for powerfulMode and an erased byte for
\* verticalSwing.
C19_Witness ==
    /\ op = "begin"
    /\ flash[S_QM] = 1 /\ flash[S_PM] = 1 /\ flash[S_VS] = 255
    /\ quietMode /\ ~powerfulMode /\ ~verticalSwing
    /\ \E i \in Positions("write") : log[i].loc = S_PM /\ log[i].val = 0

(***************************************************************************)
(* C20  After any sequence of requests, with refreshes and connections     *)
(* between them, targetMode, targetFanSpeed, targetTemperature,            *)
(* verticalSwing and horizontalSwing hold the coerced value that the last  *)
(* request with the field's key gave, or the value at the end of startup   *)
(* when no request held the key.                                           *)
(***************************************************************************)
C20_LastWriteWins ==
    Running => \A k \in TrackedKeys : FieldOf(k) = given[k]

\* After requests gave targetMode "COOL", targetFanSpeed "MAX" and
\* verticalSwing false, a refresh ran: the three fields hold what was given.
C20_Witness ==
    /\ op = "refresh"
    /\ targetMode = T_cool
    /\ targetFanSpeed = T_max
    /\ ~verticalSwing
    /\ flash[S_VS] = 0
    /\ currentTemperature = 21

====
